---- MODULE Spec2Model ----
(***************************************************************************)
(* Verification model of the tool-calling core of Multi-Agent-Router:      *)
(*   - Agent.run_stream, the turn loop (backend/core/agent_framework.py)   *)
(*   - ToolExecutor / ToolCallManager (backend/core/tool_calling/executor) *)
(*   - the call model (backend/core/tool_calling/base.py)                  *)
(* Two state machines share the module: Spec runs one Agent.run_stream     *)
(* call against a scripted language model; SpecExec runs one ToolExecutor  *)
(* or ToolCallManager operation.                                           *)
(***************************************************************************)
EXTENDS Integers, Sequences, FiniteSets, TLC

VARIABLES
    \* ---- Agent.run_stream ----
    script,          \* the language-model stub: outputs it gives, cyclically
    cfg,             \* agent construction: native tools? code_executor?
    caller_history,  \* the history list the caller passed in
    pc,              \* position of run_stream
    turn,            \* number of loop iterations entered (turn + 1 of the code)
    current_history, \* run_stream's local current_history
    prompt,          \* the history messages of the prompt last built
    events,          \* every event yielded so far
    last_tool_sig,   \* last_tool_sig
    consecutive_malformed_count,
    received,        \* chunks of the current generation received so far
    tool_call,       \* the tool_call of the current turn (None when absent)
    gen_calls,       \* calls of llm_provider.stream / generate_with_tools
    tool_runs,       \* tool executions: <<turn, call, chunks seen, outcome>>
    turn_log,        \* what each turn's dispatch saw and did
    end_reason,      \* why the loop ended
    propagated,      \* an exception escaped run_stream
    session,         \* messages the chat endpoint has saved to the session history
    \* ---- ToolExecutor / ToolCallManager ----
    ex_op,           \* the operation under execution and its inputs
    ex_pc,           \* its position
    tool_instances,  \* ToolExecutor._tool_instances (names cached)
    futures,         \* parallel mode: state of each submitted call
    results,         \* results list being collected
    batch,           \* the ToolCallBatch being built / returned
    invoked,         \* tool invocations: <<index of call, tool name, instance>>
    extractor_texts, \* texts handed to ToolCallExtractor.extract
    next_uuid,       \* source of fresh uuid4 call ids
    ex_raised,       \* an exception escaped the executor
    made_instances,  \* the tool instances made so far, by name; an instance is its index
    extractions      \* direct calls of ToolCallExtractor.extract: <<text, calls>>

agentVars == <<script, cfg, caller_history, pc, turn, current_history, prompt, events,
               last_tool_sig, consecutive_malformed_count, received, tool_call,
               gen_calls, tool_runs, turn_log, end_reason, propagated, session>>
execVars == <<ex_op, ex_pc, tool_instances, futures, results, batch, invoked,
              extractor_texts, next_uuid, ex_raised, made_instances,
              extractions>>
vars == <<agentVars, execVars>>

None == "None"

(***************************************************************************)
(* Bounds of the model.                                                    *)
(***************************************************************************)
MaxScript == 2   \* length of the cyclic script of the language-model stub
MaxCalls == 3    \* calls in one batch
MaxExtracts == 2 \* successive calls of ToolCallExtractor.extract

(***************************************************************************)
(* Program constants.                                                      *)
(***************************************************************************)
max_turns == 15
MalformedLimitOffByOne == 3 - 1
MalformedLimit == 3
HistoryWindow == 20
UnknownOrder == 999

(***************************************************************************)
(* Data of the turn loop.                                                  *)
(***************************************************************************)
\* A tool call as run_stream holds it: {"tool": name, "params": {...}}.  The
\* params mapping is kept as its items in insertion order.
NoCall == [tool |-> "", params |-> <<>>]
NoSig == <<"", <<>>>>

CallA == [tool |-> "write_file",
          params |-> << <<"path", "a.py">>, <<"content", "x">> >>]
\* the same call with its keys written in the other order
CallA2 == [tool |-> "write_file",
           params |-> << <<"content", "x">>, <<"path", "a.py">> >>]
CallB == [tool |-> "run_code", params |-> << <<"code", "print(1)">> >>]

\* A piece of generated text: prose, a well-formed JSON call inside a ``` code
\* block, a well-formed JSON call written bare in the text, or text that
\* carries the "tool": marker and parses to nothing.
Prose == [kind |-> "prose", call |-> NoCall]
Broken == [kind |-> "broken", call |-> NoCall]
Indicator(c) == [kind |-> "indicator", call |-> c]
CallBlock(c) == [kind |-> "call", call |-> c]
BareCall(c) == [kind |-> "bare", call |-> c]

\* One output of the language model: the text (streamed block by block), the
\* native tool_calls, the chunk at which the provider raises (0: never), and
\* whether the tool run in this turn raises.
Output(t, n, f, r) == [text |-> t, native |-> n, failAt |-> f, toolRaises |-> r]

OutFinal == Output(<<Prose>>, <<>>, 0, FALSE)
OutMalformed == Output(<<Broken>>, <<>>, 0, FALSE)
OutGenError == Output(<<Prose, Prose>>, <<>>, 2, FALSE)
OutCallA == Output(<<Prose, CallBlock(CallA)>>, <<CallA>>, 0, FALSE)
OutCallA2 == Output(<<CallBlock(CallA2)>>, <<CallA2>>, 0, FALSE)
OutCallB == Output(<<CallBlock(CallB)>>, <<CallB>>, 0, TRUE)
OutTwoCalls == Output(<<CallBlock(CallB), CallBlock(CallA)>>, <<CallB, CallA>>, 0, FALSE)
OutTextCallOnly == Output(<<CallBlock(CallA)>>, <<>>, 0, FALSE)
OutBareThenBlock == Output(<<BareCall(CallB), CallBlock(CallA)>>, <<CallB, CallA>>, 0, FALSE)

Outputs == {OutFinal, OutMalformed, OutGenError, OutCallA, OutCallA2, OutCallB,
            OutTwoCalls, OutTextCallOnly, OutBareThenBlock}

Scripts == UNION {[1..n -> Outputs] : n \in 1..MaxScript}

\* the output the stub gives in turn t (t >= 1)
Out(t) == script[((t - 1) % Len(script)) + 1]

Msg(role, kind, t) == [role |-> role, kind |-> kind, turn |-> t]
Ev(type, content, t) == [type |-> type, content |-> content, turn |-> t]

PriorHistory == <<Msg("user", "input", 0), Msg("assistant", "response", 0)>>
Configs == [native : BOOLEAN, executor : BOOLEAN]

(***************************************************************************)
(* Helpers of run_stream.                                                  *)
(***************************************************************************)
\* json.dumps(tool_params, sort_keys=True): the items in key order
KeyOrder == <<"code", "content", "path">>
RECURSIVE ItemsInKeyOrder(_, _)
ItemsInKeyOrder(params, k) ==
    IF k > Len(KeyOrder) THEN <<>>
    ELSE SelectSeq(params, LAMBDA it : it[1] = KeyOrder[k])
         \o ItemsInKeyOrder(params, k + 1)

JsonDumpsUnsorted(params) == params
JsonDumpsSorted(params) == ItemsInKeyOrder(params, 1)

\* tool_sig = (tool_name, json.dumps(tool_params, sort_keys=True))
ToolSig(call) == <<call.tool, JsonDumpsSorted(call.params)>>

\* _extract_json_tool_call, lines 394-412: the candidates are the code blocks
\* in document order, followed by every balanced {...} in document order
Candidates(text) ==
    SelectSeq(text, LAMBDA b : b.kind = "call")
    \o SelectSeq(text, LAMBDA b : b.kind \in {"call", "bare"})

\* _extract_json_tool_call, lines 454-468: the first candidate that parses to
\* a dict with a "tool" key
ExtractJsonToolCall(text) ==
    IF Candidates(text) = <<>> THEN NoCall ELSE Head(Candidates(text)).call

\* '"tool":' in lower_text or "'tool':" in lower_text
PotentialMalformed(text) ==
    \E i \in DOMAIN text : text[i].kind \in {"broken", "call", "bare", "indicator"}

\* the for-loop over llm_provider.stream(...) has consumed every chunk
StreamCompleteEager(out, rcv) ==
    Len(rcv) = Len(out.text) \/ ExtractJsonToolCall(rcv) # NoCall
StreamComplete(out, rcv) == Len(rcv) = Len(out.text)

\* lines 178 and 364, 256 and 321: the generation and the tool run sit inside
\* try blocks whose except Exception clause takes every exception
ExceptionEscapesTool(where) == where = "tool"
ExceptionEscapes(where) == FALSE

\* line 198: tc = result["tool_calls"][0]
LastToolCall(calls) == calls[Len(calls)]
FirstToolCall(calls) == calls[1]

\* where the loop goes after each branch
AfterGenerationErrorRetry == "loop"
AfterGenerationError == "finish"
AfterDuplicateSkipSameTurn == "gen"
AfterDuplicateSkip == "loop"
AfterMalformedAbortReturns == "done"
AfterMalformedAbort == "finish"

\* the messages the next prompt is built from: current_history[-20:]
FirstN(h, n) == IF Len(h) <= n THEN h ELSE SubSeq(h, 1, n)
LastN(h, n) == IF Len(h) <= n THEN h ELSE SubSeq(h, Len(h) - n + 1, Len(h))

\* api/routes.py, chat.event_generator, lines 195-206: every event run_stream
\* yields is forwarded, and the content of a system event is saved to the
\* session history as a system message at once
SystemMessages(evs) ==
    LET sel == SelectSeq(evs, LAMBDA e : e.type = "system")
    IN [i \in 1..Len(sel) |-> Msg("system", sel[i].content, sel[i].turn)]
HandleEvents ==
    session' = session \o SystemMessages(SubSeq(events', Len(events) + 1, Len(events')))

\* line 155: the slice current_history[-20:] is a new list; current_history
\* itself stays as it is
HistoryTruncated(h) == IF Len(h) <= 20 THEN h ELSE SubSeq(h, Len(h) - 19, Len(h))
HistoryAfterPrompt(h) == h

\* line 226: consecutive_malformed_count = 0 on a recognized tool call
MalformedCountKept == consecutive_malformed_count
MalformedCountReset == 0

\* lines 321-326: the except branch of the tool run leaves last_tool_sig as
\* line 250 has set it
SigForgotten(sig) == NoSig
SigAfterToolError(sig) == sig

LogTurn(branch) ==
    Append(turn_log, [turn |-> turn, call |-> tool_call,
                      prev |-> IF tool_runs = <<>> THEN NoCall
                               ELSE tool_runs[Len(tool_runs)].call,
                      branch |-> branch])

(***************************************************************************)
(* Agent.run_stream                                                        *)
(***************************************************************************)
InitAgent ==
    /\ script \in Scripts
    /\ cfg \in Configs
    /\ caller_history \in {<<>>, PriorHistory}
    /\ pc = "start"
    /\ turn = 0
    /\ current_history = <<>>
    /\ prompt = <<>>
    /\ events = <<>>
    /\ last_tool_sig = NoSig
    /\ consecutive_malformed_count = 0
    /\ received = <<>>
    /\ tool_call = NoCall
    /\ gen_calls = 0
    /\ tool_runs = <<>>
    /\ turn_log = <<>>
    /\ end_reason = None
    /\ propagated = FALSE
    /\ session = <<>>

\* lines 137-143: copy the caller's history, append the user message
Begin ==
    /\ pc = "start"
    /\ current_history' = Append(caller_history, Msg("user", "input", 0))
    /\ last_tool_sig' = NoSig
    /\ consecutive_malformed_count' = 0
    /\ pc' = "loop"
    /\ UNCHANGED <<prompt, script, cfg, caller_history, turn, events, received, tool_call,
                   gen_calls, tool_runs, turn_log, end_reason, propagated>>
    /\ HandleEvents
    /\ UNCHANGED execVars

\* lines 145-176: enter the next iteration, build the prompt, yield "Thinking..."
TurnStart ==
    /\ pc = "loop"
    /\ turn < max_turns
    /\ turn' = turn + 1
    /\ received' = <<>>
    /\ tool_call' = NoCall
    /\ prompt' = LastN(current_history, HistoryWindow)
    /\ current_history' = HistoryAfterPrompt(current_history)
    /\ events' = Append(events, Ev("status", "Thinking...", turn + 1))
    /\ pc' = "gen"
    /\ UNCHANGED <<script, cfg, caller_history, last_tool_sig,
                   consecutive_malformed_count, gen_calls, tool_runs, turn_log,
                   end_reason, propagated>>
    /\ HandleEvents
    /\ UNCHANGED execVars

\* line 145: range(max_turns) is exhausted
LoopExhausted ==
    /\ pc = "loop"
    /\ turn >= max_turns
    /\ pc' = "finish"
    /\ end_reason' = "budget"
    /\ UNCHANGED <<prompt, script, cfg, caller_history, turn, current_history, events,
                   last_tool_sig, consecutive_malformed_count, received, tool_call,
                   gen_calls, tool_runs, turn_log, propagated>>
    /\ HandleEvents
    /\ UNCHANGED execVars

\* lines 364-370: except Exception: yield an error event and break
GenerationFailed ==
    /\ events' = Append(events, Ev("error", "Error: generation", turn))
    /\ end_reason' = "gen_error"
    /\ propagated' = ExceptionEscapes("generation")
    /\ pc' = IF ExceptionEscapes("generation") THEN "raised" ELSE AfterGenerationError
    /\ UNCHANGED <<prompt, script, cfg, caller_history, turn, current_history, last_tool_sig,
                   consecutive_malformed_count, received, tool_call, tool_runs,
                   turn_log>>

\* lines 182-206 and 221: generate_with_tools returns
GenerateWithTools ==
    /\ pc = "gen"
    /\ cfg.native
    /\ Out(turn).failAt = 0
    /\ gen_calls' = gen_calls + 1
    /\ LET out == Out(turn)
           called == out.native # <<>>
           tc == IF called THEN FirstToolCall(out.native) ELSE NoCall
           text == IF called THEN Append(out.text, Indicator(tc)) ELSE out.text
           tokens == <<Ev("token", "text", turn)>>
                     \o (IF called THEN <<Ev("token", "indicator", turn)>> ELSE <<>>)
       IN /\ tool_call' = tc
          /\ received' = text
          /\ events' = events \o tokens
          /\ current_history' = Append(current_history, Msg("assistant", "response", turn))
    /\ pc' = "dispatch"
    /\ UNCHANGED <<prompt, script, cfg, caller_history, turn, last_tool_sig,
                   consecutive_malformed_count, tool_runs, turn_log, end_reason,
                   propagated>>
    /\ HandleEvents
    /\ UNCHANGED execVars

\* lines 185-189, 364-370: generate_with_tools raises
GenerateWithToolsRaises ==
    /\ pc = "gen"
    /\ cfg.native
    /\ Out(turn).failAt > 0
    /\ gen_calls' = gen_calls + 1
    /\ GenerationFailed
    /\ HandleEvents
    /\ UNCHANGED execVars

\* line 209: llm_provider.stream(...) is called
CallStream ==
    /\ pc = "gen"
    /\ ~cfg.native
    /\ gen_calls' = gen_calls + 1
    /\ pc' = "stream"
    /\ UNCHANGED <<prompt, script, cfg, caller_history, turn, current_history, events,
                   last_tool_sig, consecutive_malformed_count, received, tool_call,
                   tool_runs, turn_log, end_reason, propagated>>
    /\ HandleEvents
    /\ UNCHANGED execVars

\* lines 209-211: one chunk arrives and is forwarded
StreamChunk ==
    /\ pc = "stream"
    /\ ~StreamComplete(Out(turn), received)
    /\ Len(received) < Len(Out(turn).text)
    /\ Out(turn).failAt # Len(received) + 1
    /\ LET chunk == Out(turn).text[Len(received) + 1]
       IN /\ received' = Append(received, chunk)
          /\ events' = Append(events, Ev("token", chunk.kind, turn))
    /\ UNCHANGED <<prompt, script, cfg, caller_history, pc, turn, current_history,
                   last_tool_sig, consecutive_malformed_count, tool_call, gen_calls,
                   tool_runs, turn_log, end_reason, propagated>>
    /\ HandleEvents
    /\ UNCHANGED execVars

\* lines 209, 364-370: the stream raises while a chunk is awaited
StreamRaises ==
    /\ pc = "stream"
    /\ ~StreamComplete(Out(turn), received)
    /\ Out(turn).failAt = Len(received) + 1
    /\ UNCHANGED gen_calls
    /\ GenerationFailed
    /\ HandleEvents
    /\ UNCHANGED execVars

\* lines 213-221: the stream ended; extract the call, record the response
StreamEnd ==
    /\ pc = "stream"
    /\ StreamComplete(Out(turn), received)
    /\ tool_call' = ExtractJsonToolCall(received)
    /\ current_history' = Append(current_history, Msg("assistant", "response", turn))
    /\ pc' = "dispatch"
    /\ UNCHANGED <<prompt, script, cfg, caller_history, turn, events, last_tool_sig,
                   consecutive_malformed_count, received, gen_calls, tool_runs,
                   turn_log, end_reason, propagated>>
    /\ HandleEvents
    /\ UNCHANGED execVars

\* line 225: if tool_call and self.code_executor
HasToolCall == tool_call # NoCall /\ cfg.executor

\* lines 238-248: the call repeats last_tool_sig: warn and continue
SkipDuplicate ==
    /\ pc = "dispatch"
    /\ HasToolCall
    /\ ToolSig(tool_call) = last_tool_sig
    /\ consecutive_malformed_count' = MalformedCountReset
    /\ events' = events \o <<Ev("status", "Skipping duplicate tool call...", turn),
                             Ev("system", "warning", turn)>>
    /\ current_history' = Append(current_history, Msg("system", "warning", turn))
    /\ turn_log' = LogTurn("skip")
    /\ pc' = AfterDuplicateSkip
    /\ UNCHANGED <<prompt, script, cfg, caller_history, turn, last_tool_sig, received,
                   tool_call, gen_calls, tool_runs, end_reason, propagated>>
    /\ HandleEvents
    /\ UNCHANGED execVars

\* lines 250-253: remember the signature, announce the tool
BeginTool ==
    /\ pc = "dispatch"
    /\ HasToolCall
    /\ ToolSig(tool_call) # last_tool_sig
    /\ consecutive_malformed_count' = MalformedCountReset
    /\ last_tool_sig' = ToolSig(tool_call)
    /\ events' = Append(events, Ev("status", "Running tool", turn))
    /\ turn_log' = LogTurn("execute")
    /\ pc' = "exec"
    /\ UNCHANGED <<prompt, script, cfg, caller_history, turn, current_history, received,
                   tool_call, gen_calls, tool_runs, end_reason, propagated>>
    /\ HandleEvents
    /\ UNCHANGED execVars

Run(raised) == [turn |-> turn, call |-> tool_call, seen |-> received,
                raised |-> raised]

\* lines 256-319: the tool ran; its result goes to the events and the history
ToolReturns ==
    /\ pc = "exec"
    /\ ~Out(turn).toolRaises
    /\ tool_runs' = Append(tool_runs, Run(FALSE))
    /\ events' = events \o <<Ev("log", "tool output", turn),
                             Ev("system", "tool_result", turn)>>
    /\ current_history' = Append(current_history, Msg("system", "tool_result", turn))
    /\ pc' = "loop"
    /\ UNCHANGED <<prompt, script, cfg, caller_history, turn, last_tool_sig,
                   consecutive_malformed_count, received, tool_call, gen_calls,
                   turn_log, end_reason, propagated>>
    /\ HandleEvents
    /\ UNCHANGED execVars

\* lines 321-326: the tool raised; the error goes to the history and the events
ToolRaises ==
    /\ pc = "exec"
    /\ Out(turn).toolRaises
    /\ tool_runs' = Append(tool_runs, Run(TRUE))
    /\ current_history' = Append(current_history, Msg("system", "tool_error", turn))
    /\ events' = Append(events, Ev("system", "tool_error", turn))
    /\ propagated' = ExceptionEscapes("tool")
    /\ last_tool_sig' = SigAfterToolError(last_tool_sig)
    /\ pc' = IF ExceptionEscapes("tool") THEN "raised" ELSE "loop"
    /\ UNCHANGED <<prompt, script, cfg, caller_history, turn,
                   consecutive_malformed_count, received, tool_call, gen_calls,
                   turn_log, end_reason>>
    /\ HandleEvents
    /\ UNCHANGED execVars

\* lines 333-359: a "tool": marker without a call: ask the model to correct it
SelfCorrect ==
    /\ pc = "dispatch"
    /\ ~HasToolCall
    /\ PotentialMalformed(received)
    /\ ~(consecutive_malformed_count + 1 > MalformedLimit)
    /\ consecutive_malformed_count' = consecutive_malformed_count + 1
    /\ current_history' = Append(current_history, Msg("system", "correction", turn))
    /\ events' = events \o <<Ev("system", "correction", turn),
                             Ev("status", "Self-correcting JSON...", turn)>>
    /\ turn_log' = LogTurn("correct")
    /\ pc' = "loop"
    /\ UNCHANGED <<prompt, script, cfg, caller_history, turn, last_tool_sig, received,
                   tool_call, gen_calls, tool_runs, end_reason, propagated>>
    /\ HandleEvents
    /\ UNCHANGED execVars

\* lines 342-346: too many malformed outputs in a row: error event and break
AbortMalformed ==
    /\ pc = "dispatch"
    /\ ~HasToolCall
    /\ PotentialMalformed(received)
    /\ consecutive_malformed_count + 1 > MalformedLimit
    /\ consecutive_malformed_count' = consecutive_malformed_count + 1
    /\ current_history' = Append(current_history, Msg("system", "abort", turn))
    /\ events' = Append(events, Ev("error", "Too many formatting errors", turn))
    /\ turn_log' = LogTurn("abort")
    /\ end_reason' = "malformed_abort"
    /\ pc' = AfterMalformedAbort
    /\ UNCHANGED <<prompt, script, cfg, caller_history, turn, last_tool_sig, received,
                   tool_call, gen_calls, tool_runs, propagated>>
    /\ HandleEvents
    /\ UNCHANGED execVars

\* lines 361-362: an ordinary answer ends the loop
FinalAnswer ==
    /\ pc = "dispatch"
    /\ ~HasToolCall
    /\ ~PotentialMalformed(received)
    /\ turn_log' = LogTurn("final")
    /\ end_reason' = "final"
    /\ pc' = "finish"
    /\ UNCHANGED <<prompt, script, cfg, caller_history, turn, current_history, events,
                   last_tool_sig, consecutive_malformed_count, received, tool_call,
                   gen_calls, tool_runs, propagated>>
    /\ HandleEvents
    /\ UNCHANGED execVars

\* line 372: the closing status event
Finish ==
    /\ pc = "finish"
    /\ events' = Append(events, Ev("status", "Done", turn))
    /\ pc' = "done"
    /\ UNCHANGED <<prompt, script, cfg, caller_history, turn, current_history,
                   last_tool_sig, consecutive_malformed_count, received, tool_call,
                   gen_calls, tool_runs, turn_log, end_reason, propagated>>
    /\ HandleEvents
    /\ UNCHANGED execVars

\* the endpoint has written the user message of this request
HistorySaved == \E i \in DOMAIN session : session[i].role = "user"

\* api/routes.py, chat.event_generator, lines 208-211: after the stream the
\* user message is saved, then the assistant message if any text was streamed
SaveHistory ==
    /\ pc = "done"
    /\ ~HistorySaved
    /\ session' = session
                   \o <<Msg("user", "input", 0)>>
                   \o (IF \E i \in DOMAIN events : events[i].type = "token"
                       THEN <<Msg("assistant", "full_response", 0)>> ELSE <<>>)
    /\ UNCHANGED <<pc, prompt, script, cfg, caller_history, turn, current_history, events,
                   last_tool_sig, consecutive_malformed_count, received, tool_call,
                   gen_calls, tool_runs, turn_log, end_reason, propagated>>
    /\ UNCHANGED execVars

NextAgent ==
    \/ Begin
    \/ TurnStart
    \/ LoopExhausted
    \/ GenerateWithTools
    \/ GenerateWithToolsRaises
    \/ CallStream
    \/ StreamChunk
    \/ StreamRaises
    \/ StreamEnd
    \/ SkipDuplicate
    \/ BeginTool
    \/ ToolReturns
    \/ ToolRaises
    \/ SelfCorrect
    \/ AbortMalformed
    \/ FinalAnswer
    \/ Finish
    \/ SaveHistory


(***************************************************************************)
(* The call model (tool_calling/base.py) and the tools.                    *)
(***************************************************************************)
\* A ToolCall.  args stands for the arguments value: "file_args" and
\* "other_args" are non-empty mappings, "empty_object" is {}, "array" is a
\* decoded JSON value that is no mapping.
ToolCall(id, name, args, source) ==
    [id |-> id, name |-> name, args |-> args, source |-> source]

\* What a tool does when executed: it returns a ToolResult of some status,
\* returns another value, or raises.
Returns(status, error) == [kind |-> "ToolResult", status |-> status, error |-> error]
ReturnsValue == [kind |-> "value", status |-> "", error |-> None]
RaisesWith(msg) == [kind |-> "raise", status |-> "", error |-> msg]

\* the tools of the registry (backend.tools.tool_registry), by name
RegistryNames == {"ok", "err", "partial", "value", "boom", "silent"}
CustomName == "custom"
ToolBehaviour(name) ==
    CASE name = "ok"      -> Returns("success", None)          \* ToolResult.success(...)
      [] name = "err"     -> Returns("error", "bad input")     \* ToolResult.error("bad input")
      [] name = "partial" -> Returns("partial", None)          \* ToolResult.partial(data)
      [] name = "value"   -> ReturnsValue                      \* a plain dict
      [] name = "boom"    -> RaisesWith("boom")                \* raise RuntimeError("boom")
      [] name = "silent"  -> RaisesWith("")                    \* raise RuntimeError()
      [] OTHER            -> ReturnsValue                      \* a custom tool's function

\* ToolResult.is_success
IsSuccess(res) == res.status = "success"

Result(call, success, error) ==
    [tool_call_id |-> call.id, tool_name |-> call.name, success |-> success,
     error |-> error]

\* ToolExecutionResult.from_tool_result
FromToolResult(call, res) ==
    IF res.kind = "ToolResult"
    THEN Result(call, IsSuccess(res), res.error)
    ELSE Result(call, TRUE, None)

\* ToolExecutor._get_tool_instance: the cached instance, else one made by the
\* registry (None when the registry has no such name)
Resolves(name, instances) == name \in instances \/ name \in RegistryNames
InstancesAfterLookup(name, instances) ==
    IF name \in instances \/ name \notin RegistryNames THEN instances
    ELSE instances \cup {name}

NotFoundErrorEmpty(name) == ""
NotFoundError(name) == "Tool not found: " \o name

\* lines 76 and 99: the lookup and the tool run are inside try / except
\* Exception, so nothing a call raises leaves execute
ExecuteLetsThrough(call, instances) == FALSE

\* does ToolExecutor.execute reach tool.execute's body for this call
Invokes(call, instances) == Resolves(call.name, instances) /\ call.args # "array"

\* ToolExecutor.execute
Execute(call, instances) ==
    IF ~Resolves(call.name, instances)
    THEN Result(call, FALSE, NotFoundError(call.name))
    ELSE IF call.args = "array"
    THEN Result(call, FALSE, "argument after ** must be a mapping")   \* TypeError, caught
    ELSE LET res == ToolBehaviour(call.name)
         IN IF res.kind = "raise"
            THEN Result(call, FALSE, res.error)                \* error=str(e)
            ELSE FromToolResult(call, res)

\* ToolCallBatch and ToolCallBatch.add_result
Batch(calls) == [calls |-> calls, results |-> <<>>, is_executed |-> FALSE]
AddResult(b, r) ==
    LET rs == Append(b.results, r)
    IN [b EXCEPT !.results = rs,
                 !.is_executed = IF Len(rs) = Len(b.calls) THEN TRUE ELSE @]
RECURSIVE AddResults(_, _)
AddResults(b, rs) ==
    IF rs = <<>> THEN b ELSE AddResults(AddResult(b, Head(rs)), Tail(rs))

\* call_order = {call.id: i for i, call in enumerate(calls)}; .get(id, 999)
CallOrder(calls, id) ==
    LET at == {i \in DOMAIN calls : calls[i].id = id}
    IN IF at = {} THEN UnknownOrder
       ELSE (CHOOSE i \in at : \A j \in at : j <= i) - 1

\* results.sort(key=...): a stable sort
RECURSIVE InsertByKey(_, _, _)
InsertByKey(sorted, r, calls) ==
    IF sorted = <<>> THEN <<r>>
    ELSE IF CallOrder(calls, r.tool_call_id) < CallOrder(calls, Head(sorted).tool_call_id)
    THEN <<r>> \o sorted
    ELSE <<Head(sorted)>> \o InsertByKey(Tail(sorted), r, calls)
RECURSIVE SortedFrom(_, _, _)
SortedFrom(done, rest, calls) ==
    IF rest = <<>> THEN done
    ELSE SortedFrom(InsertByKey(done, Head(rest), calls), Tail(rest), calls)
Unsorted(rs, calls) == rs
SortByCallOrder(rs, calls) == SortedFrom(<<>>, rs, calls)

(***************************************************************************)
(* ToolCallExtractor.extract (tool_calling/text_extractor.py), on texts    *)
(* given as the segments the patterns match.                                *)
(***************************************************************************)
\* A segment is prose or one occurrence of a calling convention: the pattern
\* it matches (form), the tool name it names and its payload.
Seg(form, name, payload) == [form |-> form, name |-> name, payload |-> payload]

PATTERNS == <<"xml_tags", "json_codeblock_tool", "json_codeblock_full",
              "markdown_actions", "react_format", "function_call", "simple_json_tool">>
FALLBACK_PATTERNS == <<"backtick_multiline", "backtick_content", "multiline_json",
                       "simple_action", "write_file_broken_json">>

\* '`' in text and ('content' in text.lower() or 'path' in text.lower())
HasTicks(seg) == seg.form \in {"json_codeblock_tool", "json_codeblock_full",
                               "backtick_multiline", "backtick_content",
                               "write_file_broken_json"}
Mentions(seg) == seg.payload = "file_args"
HasBackticks(text) ==
    (\E i \in DOMAIN text : HasTicks(text[i])) /\ (\E i \in DOMAIN text : Mentions(text[i]))

\* re.findall(pattern, text): the segments of that form, in document order
FindAll(form, text) == SelectSeq(text, LAMBDA sg : sg.form = form)

\* _parse_json_safe: the mapping recovered from the payload ("none": every
\* repair tier failed)
ParseJsonSafe(payload) ==
    CASE payload = "empty_string" -> "empty_object"
      [] payload = "garbage"      -> "none"
      [] OTHER                    -> payload

\* _parse_single_match / _parse_full_json: the arguments of the call built
\* from one match, or "none" when no call is built
ParseSingleMatch(sg) ==
    IF sg.form = "json_codeblock_full"
    THEN (IF sg.payload = "garbage" \/ sg.name = "" THEN "none"
          ELSE IF sg.payload = "empty_string" THEN "empty_object"
          ELSE sg.payload)
    ELSE ParseJsonSafe(sg.payload)

\* _parse_fallback_matches, one match.  multiline_json and simple_action hand
\* a text wrapped in braces to _parse_json_safe, which gives a mapping or
\* nothing, and the call is built only `if arguments`.
ParseFallbackMatch(sg) ==
    IF sg.form \in {"backtick_multiline", "backtick_content", "write_file_broken_json"}
    THEN "file_args"
    ELSE (IF ParseJsonSafe(sg.payload) \in {"none", "empty_object", "array"}
          THEN "none" ELSE ParseJsonSafe(sg.payload))

\* the calls built from the matches that parse; ids are fresh uuids
RECURSIVE BuildCalls(_, _, _)
BuildCalls(matches, fallback, uuid) ==
    IF matches = <<>> THEN <<>>
    ELSE LET sg == Head(matches)
             args == IF fallback THEN ParseFallbackMatch(sg) ELSE ParseSingleMatch(sg)
         IN IF args = "none" THEN BuildCalls(Tail(matches), fallback, uuid)
            ELSE <<ToolCall(uuid, sg.name, args, "text_parsed")>>
                 \o BuildCalls(Tail(matches), fallback, uuid + 1)

\* _has_content
HasContent(calls) == \E i \in DOMAIN calls : calls[i].args = "file_args"

RECURSIVE Cascade(_, _, _, _, _, _)
Cascade(patterns, k, text, fallback, needContent, uuid) ==
    IF k > Len(patterns) THEN <<>>
    ELSE LET calls == BuildCalls(FindAll(patterns[k], text), fallback, uuid)
         IN IF calls # <<>> /\ (~needContent \/ HasContent(calls)) THEN calls
            ELSE Cascade(patterns, k + 1, text, fallback, needContent, uuid)

\* ToolCallExtractor.extract (strict = False)
Extract(text, uuid) ==
    IF text = <<>> THEN <<>>
    ELSE LET first == IF HasBackticks(text)
                      THEN Cascade(FALLBACK_PATTERNS, 1, text, TRUE, TRUE, uuid)
                      ELSE <<>>
             primary == Cascade(PATTERNS, 1, text, FALSE, FALSE, uuid)
         IN IF first # <<>> THEN first
            ELSE IF primary # <<>> THEN primary
            ELSE Cascade(FALLBACK_PATTERNS, 1, text, TRUE, FALSE, uuid)


(***************************************************************************)
(* NativeToolHandler.parse_response / ToolCall.from_openai_format          *)
(***************************************************************************)
\* One entry of the provider's tool_calls list.  id 0: the entry has no "id";
\* shape "bad": an entry from_openai_format raises on (not a dict, or its
\* "function" is null).
RawCall(id, name, args, shape) == [id |-> id, name |-> name, args |-> args, shape |-> shape]

\* json.loads of the arguments payload, {"raw": payload} when it fails
DecodeArguments(payload) == IF payload = "undecodable" THEN "raw_args" ELSE payload

UuidBase == 100

RECURSIVE ParseResponse(_, _)
ParseResponse(raw, uuid) ==
    IF raw = <<>> THEN <<>>
    ELSE LET tc == Head(raw)
         IN IF tc.shape = "bad" THEN ParseResponse(Tail(raw), uuid)
            ELSE IF tc.id = 0
            THEN <<ToolCall(uuid, tc.name, DecodeArguments(tc.args), "native")>>
                 \o ParseResponse(Tail(raw), uuid + 1)
            ELSE <<ToolCall(tc.id, tc.name, DecodeArguments(tc.args), "native")>>
                 \o ParseResponse(Tail(raw), uuid)

FreshIn(calls) == Cardinality({i \in DOMAIN calls : calls[i].id >= UuidBase})

(***************************************************************************)
(* Inputs of the executor operations.                                      *)
(***************************************************************************)
SingleCalls == {ToolCall(1, n, a, "manual") :
                    n \in RegistryNames \cup {CustomName, "ghost"},
                    a \in {"file_args", "array"}}
BatchCallSet == {ToolCall(id, n, "file_args", "native") :
                    id \in 1..2, n \in {"ok", "silent", "ghost"}}
BatchInputs == UNION {[1..n -> BatchCallSet] : n \in 0..MaxCalls}
NativeInputs == {<<>>, <<ToolCall(1, "ok", "file_args", "native")>>,
                 <<ToolCall(1, "err", "file_args", "native"),
                   ToolCall(2, "ghost", "file_args", "native")>>}
RawInputs == {<<>>,
              <<RawCall(1, "ok", "file_args", "ok")>>,
              <<RawCall(1, "boom", "undecodable", "ok"), RawCall(0, "ok", "array", "ok")>>,
              <<RawCall(2, "ok", "file_args", "bad")>>,
              <<RawCall(1, "ok", "file_args", "ok"), RawCall(1, "err", "file_args", "ok")>>}
\* A provider response: choices[0].message is null, or it is a mapping whose
\* "tool_calls" is the given list
Response(message, raw) == [message |-> message, tool_calls |-> raw]
Responses == {Response("mapping", raw) : raw \in RawInputs} \cup {Response("null", <<>>)}
NoText == <<Seg("<None>", "", "")>>
Texts == {<<>>,
          <<Seg("prose", "", "")>>,
          <<Seg("prose", "", ""), Seg("xml_tags", "ok", "file_args")>>,
          <<Seg("json_codeblock_full", "value", "other_args"),
            Seg("simple_json_tool", "ok", "other_args"),
            Seg("json_codeblock_full", "ghost", "empty_object")>>,
          <<Seg("react_format", "ok", "garbage")>>,
          <<Seg("function_call", "ok", "garbage"),
            Seg("backtick_content", "partial", "file_args")>>}

\* raw: the tool_calls list of the provider response (process_response only)
\* the texts given to ToolCallExtractor.extract when it is called directly
ExtractTexts ==
    Texts \cup
    {<<Seg("xml_tags", "ok", "empty_string"), Seg("simple_json_tool", "ok", "other_args")>>,
     <<Seg("xml_tags", "ok", "file_args"),
       Seg("write_file_broken_json", "write_file", "file_args")>>,
     <<Seg("simple_action", "ok", "other_args")>>,
     <<Seg("xml_tags", "ok", "array")>>,
     <<Seg("json_codeblock_full", "ok", "array"), Seg("react_format", "ok", "other_args")>>}

Op(name, calls, text, parallel) ==
    [name |-> name, calls |-> calls, text |-> text, parallel |-> parallel,
     raw |-> <<>>]

(***************************************************************************)
(* ToolExecutor and ToolCallManager                                        *)
(***************************************************************************)
InitExec ==
    /\ ex_op = Op("none", <<>>, <<>>, FALSE)
    /\ ex_pc = "idle"
    /\ tool_instances = {}
    /\ futures = <<>>
    /\ results = <<>>
    /\ batch = Batch(<<>>)
    /\ invoked = <<>>
    /\ extractor_texts = <<>>
    /\ next_uuid = UuidBase
    /\ ex_raised = FALSE
    /\ made_instances = <<>>
    /\ extractions = <<>>

\* register_custom_tool
RegisterCustomTool ==
    /\ ex_pc = "idle"
    /\ CustomName \notin tool_instances
    /\ tool_instances' = tool_instances \cup {CustomName}
    /\ made_instances' = Append(made_instances, CustomName)
    /\ UNCHANGED <<ex_op, ex_pc, futures, results, batch, invoked, extractor_texts,
                   next_uuid, ex_raised>>
    /\ UNCHANGED <<extractions, agentVars>>

\* _get_tool_instance, line 190: is the name absent from the cache
CacheMiss(name, instances) == name \notin instances

\* self._tool_instances[name]: the instance made last under this name
CachedInstance(name, made) ==
    LET at == {k \in DOMAIN made : made[k] = name}
    IN IF at = {} THEN 0 ELSE CHOOSE k \in at : \A l \in at : l <= k

\* lines 197-203: after a miss the registry makes a new instance, which is
\* put in the cache
MadeAfterLookup(name, missed, made) ==
    IF missed /\ name \in RegistryNames THEN Append(made, name) ELSE made
InstanceUsed(name, missed, made) ==
    IF missed THEN Len(made) + 1 ELSE CachedInstance(name, made)

\* the rest of ToolExecutor.execute on calls[i] once the cache has been looked
\* up (missed: the name was not in it), its result appended to results
RunCallAfterLookup(calls, i, missed) ==
    /\ results' = Append(results, Execute(calls[i], tool_instances))
    /\ tool_instances' = InstancesAfterLookup(calls[i].name, tool_instances)
    /\ made_instances' = MadeAfterLookup(calls[i].name, missed, made_instances)
    /\ invoked' = IF Invokes(calls[i], tool_instances)
                  THEN Append(invoked, <<i, calls[i].name,
                                         InstanceUsed(calls[i].name, missed, made_instances)>>)
                  ELSE invoked
    /\ ex_raised' = (ex_raised \/ ExecuteLetsThrough(calls[i], tool_instances))

\* one run of ToolExecutor.execute on calls[i] in the calling thread
RunCall(calls, i) == RunCallAfterLookup(calls, i, CacheMiss(calls[i].name, tool_instances))

\* ToolExecutor.execute(call)
CallExecute ==
    /\ ex_pc = "idle"
    /\ \E call \in SingleCalls :
          /\ ex_op' = Op("execute", <<call>>, <<>>, FALSE)
          /\ RunCall(<<call>>, 1)
    /\ ex_pc' = "done"
    /\ UNCHANGED <<futures, batch, extractor_texts, next_uuid>>
    /\ UNCHANGED <<extractions, agentVars>>

\* execute_batch, lines 121-132: the batch is created and the mode chosen
StartBatch(calls, parallel) ==
    /\ batch' = IF calls = <<>> THEN [Batch(calls) EXCEPT !.is_executed = TRUE]
                ELSE Batch(calls)
    /\ futures' = IF parallel /\ Len(calls) > 1
                  THEN [i \in DOMAIN calls |-> "pending"] ELSE <<>>
    /\ ex_pc' = IF calls = <<>> THEN "done"
                ELSE IF parallel /\ Len(calls) > 1 THEN "parallel"
                ELSE "sequential"
    /\ UNCHANGED <<tool_instances, results, invoked, ex_raised, made_instances>>

\* ToolExecutor.execute_batch(calls)
CallExecuteBatch ==
    /\ ex_pc = "idle"
    /\ \E calls \in BatchInputs, par \in BOOLEAN :
          /\ ex_op' = Op("execute_batch", calls, <<>>, par)
          /\ StartBatch(calls, par)
    /\ UNCHANGED <<extractor_texts, next_uuid>>
    /\ UNCHANGED <<extractions, agentVars>>

\* execute_from_text, lines 152-159
FromText(text, parallel) ==
    LET calls == Extract(text, next_uuid)
    IN /\ extractor_texts' = Append(extractor_texts, text)
       /\ next_uuid' = next_uuid + Len(calls)
       /\ IF calls = <<>>
          THEN /\ batch' = Batch(<<>>)
               /\ ex_pc' = "done"
               /\ UNCHANGED <<futures, tool_instances, results, invoked, ex_raised,
                              made_instances>>
          ELSE StartBatch(calls, parallel)

\* execute_with_fallback, lines 179-185
UseNativeNever(native_calls) == FALSE
UseNative(native_calls) == native_calls # <<>>
WithFallback(native_calls, text, parallel) ==
    IF UseNative(native_calls)
    THEN /\ StartBatch(native_calls, parallel)
         /\ UNCHANGED <<extractor_texts, next_uuid>>
    ELSE FromText(text, parallel)

\* ToolExecutor.execute_with_fallback(native_calls, text_response)
CallExecuteWithFallback ==
    /\ ex_pc = "idle"
    /\ \E native \in NativeInputs, text \in Texts, par \in BOOLEAN :
          /\ ex_op' = Op("execute_with_fallback", native, text, par)
          /\ WithFallback(native, text, par)
    /\ UNCHANGED <<extractions, agentVars>>

\* ToolCallManager.process_response, lines 333-344
ProcessResponse(raw, text, parallel) ==
    LET native == ParseResponse(raw, next_uuid)
        uuid == next_uuid + FreshIn(native)
        extracting == native = <<>> /\ text # NoText /\ text # <<>>
        calls == IF extracting THEN Extract(text, uuid) ELSE native
    IN /\ extractor_texts' = IF extracting THEN Append(extractor_texts, text)
                             ELSE extractor_texts
       /\ next_uuid' = IF extracting THEN uuid + Len(calls) ELSE uuid
       /\ IF calls = <<>>
          THEN /\ batch' = Batch(<<>>)
               /\ ex_pc' = "done"
               /\ UNCHANGED <<futures, tool_instances, results, invoked, ex_raised,
                              made_instances>>
          ELSE StartBatch(calls, parallel)

\* ToolCallManager.process_response(response, text_content)
CallProcessResponse ==
    /\ ex_pc = "idle"
    /\ \E raw \in RawInputs, text \in Texts \cup {NoText}, par \in BOOLEAN :
          /\ ex_op' = Op("process_response", ParseResponse(raw, next_uuid), text, par)
          /\ ProcessResponse(raw, text, par)
    /\ UNCHANGED <<extractions, agentVars>>

\* parse_response, lines 196-197: message.get("tool_calls", []) on a null
\* message raises, outside the try of line 201
ParseResponseRaises(resp) == resp.message = "null"

\* NativeToolHandler.parse_response(response)
CallParseResponse ==
    /\ ex_pc = "idle"
    /\ \E resp \in Responses :
          LET calls == IF ParseResponseRaises(resp) THEN <<>>
                       ELSE ParseResponse(resp.tool_calls, next_uuid)
          IN /\ ex_op' = [Op("parse_response", calls, <<>>, FALSE)
                             EXCEPT !.raw = resp.tool_calls]
             /\ batch' = Batch(calls)
             /\ next_uuid' = next_uuid + FreshIn(calls)
             /\ ex_pc' = IF ParseResponseRaises(resp) THEN "raised" ELSE "done"
    /\ UNCHANGED <<tool_instances, futures, results, invoked, extractor_texts,
                   ex_raised, made_instances>>
    /\ UNCHANGED <<extractions, agentVars>>

\* ToolCallExtractor.extract(text), called directly, possibly again
CallExtract ==
    /\ ex_pc \in {"idle", "extract"}
    /\ Len(extractions) < MaxExtracts
    /\ \E text \in ExtractTexts :
          LET calls == Extract(text, next_uuid)
          IN /\ extractions' = Append(extractions, [text |-> text, calls |-> calls])
             /\ next_uuid' = next_uuid + Len(calls)
             /\ extractor_texts' = Append(extractor_texts, text)
    /\ ex_op' = Op("extract", <<>>, <<>>, FALSE)
    /\ ex_pc' = "extract"
    /\ UNCHANGED <<tool_instances, futures, results, batch, invoked, ex_raised, made_instances>>
    /\ UNCHANGED agentVars

\* line 132: the next call of the list is executed
ExecuteNext ==
    /\ ex_pc = "sequential"
    /\ Len(results) < Len(batch.calls)
    /\ RunCall(batch.calls, Len(results) + 1)
    /\ ex_pc' = IF Len(results) + 1 = Len(batch.calls) THEN "collect" ELSE "sequential"
    /\ UNCHANGED <<ex_op, futures, batch, extractor_texts, next_uuid>>
    /\ UNCHANGED <<extractions, agentVars>>

\* lines 211-214 and 190: a worker thread starts execute on its call and
\* tests whether the name is in the cache; there is no lock around
\* _get_tool_instance
WorkerLooksUp(i) ==
    /\ ex_pc = "parallel"
    /\ futures[i] = "pending"
    /\ futures' = [futures EXCEPT ![i] = IF CacheMiss(batch.calls[i].name, tool_instances)
                                         THEN "missed" ELSE "hit"]
    /\ UNCHANGED <<ex_op, ex_pc, tool_instances, results, batch, invoked,
                   extractor_texts, next_uuid, ex_raised, made_instances>>
    /\ UNCHANGED <<extractions, agentVars>>

\* lines 191-223: a worker finishes its call; as_completed hands its result over
WorkerCompletes(i) ==
    /\ ex_pc = "parallel"
    /\ futures[i] \in {"hit", "missed"}
    /\ futures' = [futures EXCEPT ![i] = "done"]
    /\ RunCallAfterLookup(batch.calls, i, futures[i] = "missed")
    /\ UNCHANGED <<ex_op, ex_pc, batch, extractor_texts, next_uuid>>
    /\ UNCHANGED <<extractions, agentVars>>

\* lines 232-236: every future is done; the results are put in call order
JoinParallel ==
    /\ ex_pc = "parallel"
    /\ \A i \in DOMAIN futures : futures[i] = "done"
    /\ results' = SortByCallOrder(results, batch.calls)
    /\ ex_pc' = "collect"
    /\ UNCHANGED <<ex_op, tool_instances, futures, batch, invoked, extractor_texts,
                   next_uuid, ex_raised, made_instances>>
    /\ UNCHANGED <<extractions, agentVars>>

\* lines 134-137: the results are added to the batch, which is returned
Collect ==
    /\ ex_pc = "collect"
    /\ batch' = AddResults(batch, results)
    /\ ex_pc' = "done"
    /\ UNCHANGED <<ex_op, tool_instances, futures, results, invoked, extractor_texts,
                   next_uuid, ex_raised, made_instances>>
    /\ UNCHANGED <<extractions, agentVars>>

NextExec ==
    \/ RegisterCustomTool
    \/ CallExecute
    \/ CallExecuteBatch
    \/ CallExecuteWithFallback
    \/ CallProcessResponse
    \/ CallParseResponse
    \/ CallExtract
    \/ ExecuteNext
    \/ \E i \in DOMAIN futures : WorkerLooksUp(i)
    \/ \E i \in DOMAIN futures : WorkerCompletes(i)
    \/ JoinParallel
    \/ Collect

(***************************************************************************)
(* Specifications.                                                         *)
(***************************************************************************)
\* the executor variables while run_stream is the machine under study
ExecIdle ==
    /\ ex_op = Op("none", <<>>, <<>>, FALSE)
    /\ ex_pc = "off"
    /\ tool_instances = {}
    /\ futures = <<>>
    /\ results = <<>>
    /\ batch = Batch(<<>>)
    /\ invoked = <<>>
    /\ extractor_texts = <<>>
    /\ next_uuid = UuidBase
    /\ ex_raised = FALSE
    /\ made_instances = <<>>
    /\ extractions = <<>>

\* the run_stream variables while the executor is the machine under study
AgentIdle ==
    /\ script = <<OutFinal>>
    /\ cfg = [native |-> FALSE, executor |-> FALSE]
    /\ caller_history = <<>>
    /\ pc = "off"
    /\ turn = 0
    /\ current_history = <<>>
    /\ prompt = <<>>
    /\ events = <<>>
    /\ last_tool_sig = NoSig
    /\ consecutive_malformed_count = 0
    /\ received = <<>>
    /\ tool_call = NoCall
    /\ gen_calls = 0
    /\ tool_runs = <<>>
    /\ turn_log = <<>>
    /\ end_reason = None
    /\ propagated = FALSE
    /\ session = <<>>

Init == InitAgent /\ ExecIdle
Next == NextAgent
Spec == Init /\ [][Next]_vars

InitE == InitExec /\ AgentIdle
NextE == NextExec
SpecExec == InitE /\ [][NextE]_vars


\* run_stream is sequential code: whenever a step is possible it is taken
SpecLive == Init /\ [][Next]_vars /\ WF_vars(Next)

(***************************************************************************)
(* Claims about Agent.run_stream.                                          *)
(***************************************************************************)
ErrorEvents == {i \in DOMAIN events : events[i].type = "error"}
InHistory(m) == \E i \in DOMAIN current_history : current_history[i] = m
Emitted(e) == \E i \in DOMAIN events : events[i] = e
RanInTurn(t) == \E i \in DOMAIN tool_runs : tool_runs[i].turn = t

\* every output of the stub carries the "tool": marker and holds no call
AlwaysMalformed ==
    \A i \in DOMAIN script :
        /\ script[i].failAt = 0
        /\ script[i].native = <<>>
        /\ \E j \in DOMAIN script[i].text : script[i].text[j].kind = "broken"
        /\ \A j \in DOMAIN script[i].text : script[i].text[j].kind # "call"

\* C1: when every generation returns a text with a "tool": marker and no
\* parsable call, the run makes exactly 4 generation calls: each of the first
\* 3 is followed by a corrective system message in the history before the
\* next generation, the 4th by an error event, and none is made after it.
C1_FourGenerationsThenAbort ==
    AlwaysMalformed =>
        /\ gen_calls <= 4
        /\ \A t \in 1..3 : gen_calls > t => InHistory(Msg("system", "correction", t))
        /\ \A i \in ErrorEvents : events[i].turn = 4 /\ gen_calls = 4
        /\ pc = "done" =>
              /\ gen_calls = 4
              /\ Cardinality(ErrorEvents) = 1
              /\ \A t \in 1..3 : InHistory(Msg("system", "correction", t))
              /\ ~InHistory(Msg("system", "correction", 4))
C1_Witness == AlwaysMalformed /\ pc = "done" /\ gen_calls = 4 /\ ErrorEvents # {}

\* C2: whatever the model and the tools do, run_stream makes at most 15
\* generation calls and then terminates; every turn, those ending in a
\* duplicate skip or a self-correction included, is one of the 15.
C2_AtMostFifteenGenerations ==
    /\ [](/\ gen_calls <= 15
          /\ gen_calls <= turn
          /\ \A i \in DOMAIN turn_log :
                /\ turn_log[i].turn \in 1..15
                /\ turn_log[i].turn <= gen_calls
                /\ \A j \in DOMAIN turn_log : i < j => turn_log[i].turn < turn_log[j].turn)
    /\ <>(pc = "done")
C2_Witness ==
    /\ pc = "done"
    /\ gen_calls = 15
    /\ \E i \in DOMAIN turn_log : turn_log[i].branch = "skip"
    /\ \E i \in DOMAIN turn_log : turn_log[i].branch = "correct"

\* C3: a run that uses up its 15 turns without a final answer has an error
\* event in its event stream.
C3_BudgetExhaustionEmitsError ==
    (pc = "done" /\ end_reason = "budget") => ErrorEvents # {}

\* the (name, arguments) signatures of two calls are the same: same tool,
\* equal argument mappings
SameSignature(c1, c2) ==
    /\ c1.tool = c2.tool
    /\ {c1.params[i] : i \in DOMAIN c1.params} = {c2.params[i] : i \in DOMAIN c2.params}

\* the turns whose parsed call repeats the most recently executed call
RepeatTurns ==
    {i \in DOMAIN turn_log :
        /\ cfg.executor
        /\ turn_log[i].call # NoCall
        /\ turn_log[i].prev # NoCall
        /\ SameSignature(turn_log[i].call, turn_log[i].prev)}

SkippedWithWarning(r) ==
    /\ r.branch = "skip"
    /\ ~RanInTurn(r.turn)
    /\ InHistory(Msg("system", "warning", r.turn))
    /\ Emitted(Ev("system", "warning", r.turn))
    /\ turn = r.turn => pc \in {"loop", "finish", "done"}

\* C4 as stated: a repeated call is not executed, a warning goes to the
\* history and the events, and a further generation follows.
C4_DuplicateSkippedThenRegenerates ==
    \A i \in RepeatTurns :
        /\ SkippedWithWarning(turn_log[i])
        /\ pc \in {"finish", "done"} => gen_calls > turn_log[i].turn

\* C4, amended: a repeated call is not executed in its turn, a warning system
\* message is appended to the history and emitted as a system event, and the
\* loop goes on to the next generation unless the turn was the 15th, after
\* which the run ends.
C4_DuplicateSkipped ==
    \A i \in RepeatTurns :
        /\ SkippedWithWarning(turn_log[i])
        /\ turn_log[i].turn < 15 =>
              /\ turn = turn_log[i].turn => pc = "loop"
              /\ pc \in {"finish", "done"} => gen_calls > turn_log[i].turn
        /\ (turn_log[i].turn = 15 /\ pc = "done") => gen_calls = 15
C4_Witness ==
    /\ pc = "done"
    /\ \E i \in RepeatTurns : turn_log[i].turn < 15 /\ turn_log[i].call # turn_log[i].prev
    /\ \E i \in RepeatTurns : turn_log[i].turn = 15

\* the turns whose generation call has raised
GenRaisedTurns ==
    {t \in 1..turn : Out(t).failAt > 0 /\ (t < turn \/ pc \notin {"gen", "stream"})}

\* C9: when the generation call raises, exactly one error event is emitted for
\* it, no generation call and no tool execution follow, and the exception
\* stays inside run_stream.
C9_GenerationErrorEndsRun ==
    \A t \in GenRaisedTurns :
        /\ Cardinality({i \in ErrorEvents : events[i].turn = t}) = 1
        /\ Cardinality(ErrorEvents) = 1
        /\ turn = t
        /\ gen_calls = t
        /\ \A i \in DOMAIN tool_runs : tool_runs[i].turn < t
        /\ pc \in {"finish", "done"}
        /\ ~propagated
C9_Witness ==
    /\ pc = "done"
    /\ GenRaisedTurns # {}
    /\ tool_runs # <<>>
    /\ \E i \in DOMAIN events : events[i].type = "token" /\ events[i].turn = turn

\* the whole output of turn t as run_stream assembles it
FullOutput(t) ==
    IF cfg.native /\ Out(t).native # <<>>
    THEN Append(Out(t).text, Indicator(Out(t).native[1]))
    ELSE Out(t).text

\* C10: every tool-result message of the history directly follows the
\* assistant message of the turn that produced its call, and every tool was
\* executed with the whole output of its turn received.
C10_ResultFollowsItsGeneration ==
    /\ \A i \in DOMAIN current_history :
          current_history[i].kind \in {"tool_result", "tool_error"} =>
              /\ i > 1
              /\ current_history[i - 1] =
                     Msg("assistant", "response", current_history[i].turn)
              /\ RanInTurn(current_history[i].turn)
    /\ \A i \in DOMAIN tool_runs :
          tool_runs[i].seen = FullOutput(tool_runs[i].turn)
    /\ pc = "exec" => received = FullOutput(turn)
C10_Witness ==
    /\ ~cfg.native
    /\ InHistory(Msg("system", "tool_result", 1))
    /\ InHistory(Msg("system", "tool_error", 2))
    /\ \E i \in DOMAIN tool_runs : Len(tool_runs[i].seen) = 2

\* the system message a tool run leaves in the history
ResultMsg(r) ==
    Msg("system", IF r.raised THEN "tool_error" ELSE "tool_result", r.turn)
InPrompt(m) == \E i \in DOMAIN prompt : prompt[i] = m

\* C11 as stated: after every tool execution one more generation call is made.
C11_ToolRunThenGeneration ==
    \A i \in DOMAIN tool_runs :
        /\ InHistory(ResultMsg(tool_runs[i]))
        /\ pc \in {"finish", "done"} => gen_calls > tool_runs[i].turn

\* C11, amended: after a tool execution in one of the first 14 turns,
\* successful or failed, the loop starts the next turn, whose prompt contains
\* the result of that execution and whose generation call is made; after a
\* tool execution in the 15th turn the result is in the history and the run
\* ends without another generation.
C11_ToolRunThenNextTurn ==
    \A i \in DOMAIN tool_runs :
        LET r == tool_runs[i]
        IN /\ InHistory(ResultMsg(r))
           /\ r.turn < 15 =>
                 /\ turn = r.turn => pc = "loop"
                 /\ turn = r.turn + 1 => InPrompt(ResultMsg(r))
                 /\ (turn > r.turn /\ pc # "gen") => gen_calls > r.turn
                 /\ pc \in {"finish", "done"} => gen_calls > r.turn
           /\ (r.turn = 15 /\ pc = "done") => gen_calls = 15 /\ end_reason = "budget"
C11_Witness ==
    /\ pc = "done"
    /\ gen_calls = 15
    /\ \E i \in DOMAIN tool_runs : tool_runs[i].turn = 15
    /\ \E i \in DOMAIN tool_runs : tool_runs[i].turn = 13 /\ tool_runs[i].raised
    /\ \E i \in DOMAIN tool_runs : tool_runs[i].turn = 14 /\ ~tool_runs[i].raised
    /\ Len(current_history) > HistoryWindow

\* the first call of a text in the order run_stream recognizes calls: the
\* calls in code blocks come before the calls written bare
FirstOfKind(text, kind) ==
    LET at == {i \in DOMAIN text : text[i].kind = kind}
    IN IF at = {} THEN NoCall
       ELSE text[CHOOSE i \in at : \A j \in at : i <= j].call
FirstRecognized(t) ==
    IF cfg.native
    THEN (IF Out(t).native = <<>> THEN NoCall ELSE Out(t).native[1])
    ELSE IF FirstOfKind(Out(t).text, "call") # NoCall
    THEN FirstOfKind(Out(t).text, "call")
    ELSE FirstOfKind(Out(t).text, "bare")
SeveralCalls(t) ==
    IF cfg.native THEN Len(Out(t).native) > 1
    ELSE Cardinality({i \in DOMAIN Out(t).text :
                         Out(t).text[i].kind \in {"call", "bare"}}) > 1

\* C12: no turn executes more than one tool, and the tool it executes is the
\* first recognized call of the turn's output, also when the output holds
\* several calls.
C12_OneToolPerTurn ==
    /\ \A i, j \in DOMAIN tool_runs :
          tool_runs[i].turn = tool_runs[j].turn => i = j
    /\ \A i \in DOMAIN tool_runs :
          tool_runs[i].call = FirstRecognized(tool_runs[i].turn)
    /\ pc = "exec" => tool_call = FirstRecognized(turn) /\ ~RanInTurn(turn)
C12_Witness ==
    /\ pc = "done"
    /\ ~cfg.native
    /\ \E i \in DOMAIN tool_runs :
          /\ SeveralCalls(tool_runs[i].turn)
          /\ Out(tool_runs[i].turn) = OutBareThenBlock
    /\ \E i \in DOMAIN tool_runs : Out(tool_runs[i].turn) = OutTwoCalls

\* the tool runs that raised
RaisedRuns == {i \in DOMAIN tool_runs : tool_runs[i].raised}
ErrorCaptured(r) ==
    /\ ~propagated
    /\ InHistory(Msg("system", "tool_error", r.turn))
    /\ Emitted(Ev("system", "tool_error", r.turn))
    /\ \A i \in ErrorEvents : events[i].turn # r.turn
    /\ turn = r.turn => pc \in {"loop", "finish", "done"}

\* C13 as stated: a tool that raises leaves a system message and no error
\* event, nothing propagates, and the next generation is made.
C13_ToolErrorThenGeneration ==
    \A i \in RaisedRuns :
        /\ ErrorCaptured(tool_runs[i])
        /\ pc \in {"finish", "done"} => gen_calls > tool_runs[i].turn

\* C13, amended: a tool that raises leaves a system message carrying the error
\* in the history and no error event, nothing propagates, and the loop goes on
\* with the next generation unless the turn was the 15th, after which the run
\* ends because the turns are used up.
C13_ToolErrorCaptured ==
    \A i \in RaisedRuns :
        /\ ErrorCaptured(tool_runs[i])
        /\ tool_runs[i].turn < 15 =>
              /\ turn = tool_runs[i].turn => pc = "loop"
              /\ pc \in {"finish", "done"} => gen_calls > tool_runs[i].turn
        /\ (tool_runs[i].turn = 15 /\ pc = "done") => end_reason = "budget"
C13_Witness ==
    /\ pc = "done"
    /\ \E i \in RaisedRuns : tool_runs[i].turn = 15
    /\ \E i \in RaisedRuns : tool_runs[i].turn = 1
    /\ end_reason = "budget"

\* the first well-formed call written in a text
FirstTextCall(text) ==
    IF FirstOfKind(text, "call") # NoCall THEN FirstOfKind(text, "call")
    ELSE FirstOfKind(text, "bare")

\* C14: in every turn whose output carries no native calls, with a provider
\* that supports native tools too, a well-formed call written in the text is
\* recognized and acted on.
C14_TextFallbackWithoutNativeCalls ==
    \A i \in DOMAIN turn_log :
        LET t == turn_log[i].turn
        IN (/\ cfg.executor
            /\ (cfg.native => Out(t).native = <<>>)
            /\ FirstTextCall(Out(t).text) # NoCall)
           => /\ turn_log[i].branch \in {"execute", "skip"}
              /\ turn_log[i].call = FirstTextCall(Out(t).text)

(***************************************************************************)
(* Claims about ToolExecutor and ToolCallManager.                          *)
(***************************************************************************)
Returned == ex_pc = "done"
NoError(e) == e = None \/ e = ""

\* C5: a batch executed in parallel mode is returned with results[i] being
\* the result of calls[i], whatever order the workers finished in.
C5_ParallelResultsInCallOrder ==
    (Returned /\ ex_op.parallel /\ Len(batch.calls) > 1) =>
        /\ Len(batch.results) = Len(batch.calls)
        /\ \A i \in DOMAIN batch.calls :
              batch.results[i].tool_call_id = batch.calls[i].id

\* C6: in every result, success = false goes with a non-empty error and
\* success = true with an empty or absent one.
ErrorMatchesSuccess(r) ==
    /\ ~r.success => ~NoError(r.error)
    /\ r.success => NoError(r.error)
C6_ErrorMatchesSuccess ==
    /\ \A i \in DOMAIN results : ErrorMatchesSuccess(results[i])
    /\ \A i \in DOMAIN batch.results : ErrorMatchesSuccess(batch.results[i])

\* C7: executing a call whose name is neither registered nor custom-registered
\* gives success = false with a non-empty error, raises nothing and invokes
\* no tool.
Unresolvable(name) == name \notin RegistryNames /\ name \notin tool_instances
C7_UnknownToolFails ==
    /\ ~ex_raised
    /\ \A i \in DOMAIN results :
          Unresolvable(results[i].tool_name) =>
              /\ results[i].success = FALSE
              /\ ~NoError(results[i].error)
    /\ \A i \in DOMAIN invoked : ~Unresolvable(invoked[i][2])
C7_Witness ==
    /\ Returned
    /\ ex_op.name = "execute"
    /\ Unresolvable(ex_op.calls[1].name)
    /\ Len(results) = 1
    /\ invoked = <<>>

\* what the extractor recovers from a text (nothing from an absent text)
Recovered(text) == IF text = NoText THEN <<>> ELSE Extract(text, UuidBase)

\* C8: execute_with_fallback and process_response execute exactly the native
\* calls when there are any, without handing the text to the extractor, and
\* exactly the calls extracted from the text otherwise.
C8_NativeCallsWin ==
    ex_op.name \in {"execute_with_fallback", "process_response"} =>
        IF ex_op.calls # <<>>
        THEN batch.calls = ex_op.calls /\ extractor_texts = <<>>
        ELSE /\ batch.calls = Recovered(ex_op.text)
             /\ \A i \in DOMAIN extractor_texts : extractor_texts[i] = ex_op.text
             /\ Recovered(ex_op.text) # <<>> => extractor_texts # <<>>
C8_Witness ==
    /\ Returned
    /\ ex_op.name = "execute_with_fallback"
    /\ ex_op.calls # <<>>
    /\ Recovered(ex_op.text) # <<>>
    /\ Len(batch.results) = Len(ex_op.calls)

(***************************************************************************)
(* Claims about NativeToolHandler.parse_response and from_openai_format.   *)
(***************************************************************************)
\* C15: parse_response raises for no response, and for a tool-call list of n
\* entries it returns n calls, in the order of the entries, all of source
\* native.
C15_ParseResponseTotal ==
    ex_op.name = "parse_response" =>
        /\ ex_pc # "raised"
        /\ Len(batch.calls) = Len(ex_op.raw)
        /\ \A i \in DOMAIN batch.calls :
              /\ batch.calls[i].source = "native"
              /\ i \in DOMAIN ex_op.raw => batch.calls[i].name = ex_op.raw[i].name

\* the arguments values that are string-keyed mappings
IsMapping(args) == args \in {"file_args", "other_args", "empty_object", "raw_args"}

\* C16: the arguments of every call built from a provider's tool-call entry
\* are a mapping, whatever the payload decodes to.
C16_ArgumentsAreMappings ==
    ex_op.name \in {"parse_response", "process_response"} =>
        \A i \in DOMAIN ex_op.calls : IsMapping(ex_op.calls[i].args)

(***************************************************************************)
(* Claims about ToolCallExtractor.extract.                                 *)
(***************************************************************************)
\* C17: two calls of extract on the same text return equal lists of calls,
\* equal in every field of every call.
C17_ExtractIsDeterministic ==
    \A i, j \in DOMAIN extractions :
        extractions[i].text = extractions[j].text =>
            extractions[i].calls = extractions[j].calls

\* a list of calls without the ids
Shape(calls) == [i \in DOMAIN calls |-> <<calls[i].name, calls[i].args>>]
\* the calls one primary matcher builds from a text
MatcherCalls(k, text) == BuildCalls(FindAll(PATTERNS[k], text), FALSE, 0)
\* a call with a non-empty name and a non-empty argument mapping
Complete(call) == call.name # "" /\ call.args \in {"file_args", "other_args"}
CompleteMatchers(text) ==
    {k \in DOMAIN PATTERNS :
        \E i \in DOMAIN MatcherCalls(k, text) : Complete(MatcherCalls(k, text)[i])}
FirstCompleteMatcher(text) ==
    CHOOSE k \in CompleteMatchers(text) : \A j \in CompleteMatchers(text) : k <= j

\* C18: extract returns the calls of the first primary matcher, in priority
\* order, that builds a call with a non-empty name and a non-empty argument
\* mapping; matchers that build only calls with empty arguments are passed
\* over.
C18_FirstCompleteMatcherWins ==
    \A i \in DOMAIN extractions :
        CompleteMatchers(extractions[i].text) # {} =>
            Shape(extractions[i].calls) =
                Shape(MatcherCalls(FirstCompleteMatcher(extractions[i].text),
                                   extractions[i].text))

\* what the primary cascade alone gives for a text
PrimaryCalls(text) == Cascade(PATTERNS, 1, text, FALSE, FALSE, 0)

\* C19: when the primary cascade yields a call with its content, extract
\* returns the calls of the primary cascade; calls of the secondary matchers
\* are returned only for a text that shows content/path markers alongside
\* backticks.
C19_SecondaryOnlyAfterPrimary ==
    \A i \in DOMAIN extractions :
        /\ HasContent(PrimaryCalls(extractions[i].text)) =>
              Shape(extractions[i].calls) = Shape(PrimaryCalls(extractions[i].text))
        /\ Shape(extractions[i].calls) # Shape(PrimaryCalls(extractions[i].text)) =>
              HasBackticks(extractions[i].text)

\* C20: no call returned by extract has arguments recovered from a JSON value
\* that is not an object.
C20_NoCallFromNonObject ==
    \A i \in DOMAIN extractions :
        \A j \in DOMAIN extractions[i].calls :
            extractions[i].calls[j].args # "array"

(***************************************************************************)
(* Further claims about Agent.run_stream and the chat endpoint.            *)
(***************************************************************************)
\* C21: every event run_stream emits has one of the types token, status,
\* system, error, done.
C21_EventTypes ==
    \A i \in DOMAIN events :
        events[i].type \in {"token", "status", "system", "error", "done"}

IsPrefix(a, b) == Len(a) <= Len(b) /\ SubSeq(b, 1, Len(a)) = a

\* C24: every step of run_stream leaves the history an extension of what it
\* was, building a prompt from the last 20 messages included, the local
\* history starts with the caller's messages, and the caller's list is never
\* changed.
C24_HistoryAppendOnly ==
    /\ [](pc \notin {"start", "off"} => IsPrefix(caller_history, current_history))
    /\ [][/\ IsPrefix(current_history, current_history')
          /\ caller_history' = caller_history]_vars
C24_Witness ==
    /\ caller_history = PriorHistory
    /\ Len(current_history) > HistoryWindow
    /\ Len(prompt) = HistoryWindow
    /\ pc = "gen"

\* C25: the formatting abort comes only as the 4th turn in a row that took
\* the malformed branch, and a turn with a recognized call, executed or
\* skipped, leaves the counter at 0.
C25_AbortOnlyAfterFourInARow ==
    /\ \A i \in DOMAIN turn_log :
          turn_log[i].branch = "abort" =>
              /\ i >= 4
              /\ \A k \in 1..3 :
                    /\ turn_log[i - k].branch = "correct"
                    /\ turn_log[i - k].turn = turn_log[i].turn - k
    /\ (turn_log # <<>> /\ turn_log[Len(turn_log)].branch \in {"execute", "skip"}) =>
          consecutive_malformed_count = 0
    /\ end_reason = "malformed_abort" <=>
          \E i \in DOMAIN turn_log : turn_log[i].branch = "abort"
C25_Witness ==
    /\ pc = "done"
    /\ end_reason = "budget"
    /\ Cardinality({i \in DOMAIN turn_log : turn_log[i].branch = "correct"}) >= 4
    /\ \E i \in DOMAIN turn_log : turn_log[i].branch = "execute"
    /\ \E i \in DOMAIN turn_log : turn_log[i].branch = "skip"

\* C26: no two successive tool executions have the same signature, and every
\* call with the signature of the last executed call is skipped, also after
\* an execution that raised and across self-correction turns.
C26_NoSuccessiveSameSignature ==
    /\ \A i \in DOMAIN tool_runs :
          i < Len(tool_runs) =>
              ~SameSignature(tool_runs[i].call, tool_runs[i + 1].call)
    /\ \A i \in RepeatTurns :
          turn_log[i].branch = "skip" /\ ~RanInTurn(turn_log[i].turn)
C26_Witness ==
    \E i \in DOMAIN tool_runs, j, k \in DOMAIN turn_log :
        /\ tool_runs[i].raised
        /\ turn_log[j].turn = tool_runs[i].turn + 1
        /\ turn_log[j].branch = "correct"
        /\ turn_log[k].turn = tool_runs[i].turn + 2
        /\ turn_log[k].branch = "skip"
        /\ turn_log[k].call = tool_runs[i].call

DoneEvents ==
    {i \in DOMAIN events : events[i].type = "status" /\ events[i].content = "Done"}

\* C28: when run_stream has ended, however it ended, its last event is the
\* status event "Done" and it is the only such event; no "Done" is emitted
\* before the end.
C28_EndsWithDone ==
    /\ pc = "done" =>
          /\ end_reason \in {"final", "malformed_abort", "gen_error", "budget"}
          /\ events # <<>>
          /\ events[Len(events)].type = "status"
          /\ events[Len(events)].content = "Done"
          /\ Cardinality(DoneEvents) = 1
    /\ pc # "done" => DoneEvents = {}
C28_Witness ==
    /\ pc = "done"
    /\ end_reason = "malformed_abort"
    /\ Cardinality(DoneEvents) = 1
    /\ Cardinality(ErrorEvents) = 1

\* C30: in the session history the user message of a request comes before
\* the system messages and the assistant message saved for that request.
C30_SessionInConversationOrder ==
    \A u, i \in DOMAIN session :
        (session[u].role = "user" /\ session[i].role \in {"system", "assistant"})
            => u < i

(***************************************************************************)
(* Further claims about ToolCallBatch and ToolExecutor.                    *)
(***************************************************************************)
BatchOps == {"execute_batch", "execute_with_fallback", "process_response"}

\* C22: in every batch returned by execute_batch, execute_from_text,
\* execute_with_fallback or process_response, is_executed is true exactly
\* when there are as many results as calls.
C22_ExecutedIffComplete ==
    (Returned /\ ex_op.name \in BatchOps) =>
        (batch.is_executed <=> Len(batch.results) = Len(batch.calls))

DistinctIds(calls) ==
    \A i, j \in DOMAIN calls : i # j => calls[i].id # calls[j].id

\* C23: the calls of a batch built from a provider response or from an
\* extracted text have pairwise distinct ids.
C23_CallIdsDistinct ==
    (ex_op.name \in {"parse_response", "process_response", "execute_with_fallback"}
        /\ ex_pc \in {"done", "sequential", "parallel", "collect"})
        => DistinctIds(batch.calls)

TimesInvoked(i) == Cardinality({k \in DOMAIN invoked : invoked[k][1] = i})

\* C27: execute_batch on calls with pairwise distinct ids, sequential or
\* parallel, returns one result per call, with the call's id and tool name
\* and in the order of the calls, and has invoked the tool of every call
\* that has one exactly once, whatever the other calls did.
C27_OneResultPerCall ==
    (Returned /\ ex_op.name = "execute_batch" /\ DistinctIds(ex_op.calls)) =>
        /\ batch.calls = ex_op.calls
        /\ Len(batch.results) = Len(batch.calls)
        /\ \A i \in DOMAIN batch.calls :
              /\ batch.results[i].tool_call_id = batch.calls[i].id
              /\ batch.results[i].tool_name = batch.calls[i].name
              /\ TimesInvoked(i) = IF Unresolvable(batch.calls[i].name) THEN 0 ELSE 1
C27_Witness ==
    /\ Returned
    /\ ex_op.name = "execute_batch"
    /\ ex_op.parallel
    /\ DistinctIds(ex_op.calls)
    /\ Len(ex_op.calls) = 2
    /\ ex_op.calls[1].name = "silent"
    /\ ex_op.calls[2].name = "ok"
    /\ ~batch.results[1].success
    /\ batch.results[2].success
    /\ invoked = <<<<2, "ok", 1>>, <<1, "silent", 2>>>>

\* C29: within one ToolExecutor every invocation of a tool name runs on the
\* same instance, and one instance is made per name.
C29_OneInstancePerName ==
    /\ \A i, j \in DOMAIN invoked :
          invoked[i][2] = invoked[j][2] => invoked[i][3] = invoked[j][3]
    /\ \A k, l \in DOMAIN made_instances :
          made_instances[k] = made_instances[l] => k = l

====
